---- MODULE Spec2Model ----
(***************************************************************************)
(* TP-Link Wi-Fi Smart Plug protocol client (tplink_smartplug.py).         *)
(*                                                                         *)
(* The module models                                                       *)
(*   - the XOR autokey cipher and its framing (encrypt, decrypt),          *)
(*   - send_command, one socket step per action,                           *)
(*   - update_time and the two top-level modes (one-shot, time updater).   *)
(*                                                                         *)
(* Strings are sequences of code points, byte strings are sequences of     *)
(* numbers in 0..255.  A Python call that may raise yields a record        *)
(* [exc, val]: exc = "none" and the value, or the exception's name.        *)
(***************************************************************************)
EXTENDS Integers, Sequences, FiniteSets, TLC

\* ------------------------------------------------------------------ bounds

\* Inputs of the cipher harness: every string over the full range 0..255 up
\* to MaxFullLen characters, and every string over SampleChars up to MaxLen.
MaxFullLen == 1

MaxLen == 3

\* Sockets of earlier send_command calls that are still open: the model
\* follows up to MaxLeaked of them.
MaxLeaked == 1

\* The number of characters of the longest plaintext the device sends: with
\* its four length bytes, more than one recv can take.
MaxReply == 2050

\* ------------------------------------------------------- Python primitives

Result(v) == [exc |-> "none", val |-> v]

Raise(e) == [exc |-> e, val |-> <<>>]

\* Python's a ^ b on non-negative integers, bit by bit from the lowest.
xor[a \in Nat, b \in Nat] ==
    IF a = 0 THEN b
    ELSE IF b = 0 THEN a
    ELSE ((a + b) % 2) + 2 * xor[a \div 2, b \div 2]

\* pack_I with the bytes in little-endian order.
pack_I_little(n) ==
    Result(<< n % 256, (n \div 256) % 256, (n \div 65536) % 256,
              (n \div 16777216) % 256 >>)

\* struct.pack(">I", n): four bytes, most significant first; struct.error
\* when n does not fit 32 bits (n >= 65536 * 65536).
pack_I(n) ==
    IF n \div 65536 > 65535 THEN Raise("struct.error")
    ELSE Result(<< (n \div 16777216) % 256, (n \div 65536) % 256,
                   (n \div 256) % 256, n % 256 >>)

\* from4 that takes as many bytes as the first four announce (or all there
\* are, when they announce more).
from4_by_length(data) ==
    IF Len(data) <= 4 THEN <<>>
    ELSE LET rest == Len(data) - 4
             n    == IF data[1] > 0 THEN rest
                     ELSE (data[2] * 256 + data[3]) * 256 + data[4]
         IN  SubSeq(data, 5, 4 + (IF n > rest THEN rest ELSE n))

\* data[4:]
from4(data) == IF Len(data) <= 4 THEN <<>> ELSE SubSeq(data, 5, Len(data))

\* data[:n]
upto(data, n) == IF Len(data) <= n THEN data ELSE SubSeq(data, 1, n)

\* ------------------------------------------------------------------ cipher

\* The start key of both directions.
StartKey == 171

\* The loop of encrypt over string, entered with key: a = key ^ ord(i);
\* key = a; result += bytes([a]).  The value is the sequence of the numbers
\* a.  (loop runs the characters l..h entered with key k, key_after is the
\* key it leaves; the range is halved, and the second half entered with
\* the key the first half leaves, to keep the evaluation shallow: the
\* numbers are those of the loop run in order.)
encrypt_loop(string, key) ==
    LET key_after[l \in Nat, h \in Nat, k \in Nat] ==
            IF l > h THEN k
            ELSE IF l = h THEN xor[k, string[l]]
            ELSE key_after[((l + h) \div 2) + 1, h,
                           key_after[l, (l + h) \div 2, k]]
        loop[l \in Nat, h \in Nat, k \in Nat] ==
            IF l > h THEN <<>>
            ELSE IF l = h THEN << xor[k, string[l]] >>
            ELSE loop[l, (l + h) \div 2, k]
                 \o loop[((l + h) \div 2) + 1, h,
                         key_after[l, (l + h) \div 2, k]]
    IN  loop[1, Len(string), key]

\* bytes([a]) for the numbers a of the loop: the bytes, or ValueError for
\* an a that is no byte (a > 255).
bytes[result \in Seq(Nat)] ==
    IF \E i \in DOMAIN result : result[i] > 255 THEN Raise("ValueError")
    ELSE Result(result)

\* encrypt(string): the packed length, then the loop's bytes.
encrypt(string) ==
    LET prefix == pack_I(Len(string))
        body   == bytes[encrypt_loop(string, StartKey)]
    IN  IF prefix.exc # "none" THEN prefix
        ELSE IF body.exc # "none" THEN body
        ELSE Result(prefix.val \o body.val)

\* decrypt_key with the key update lost: the key stays the start key.
decrypt_key_stale(string, i) == StartKey

\* The key of decrypt's loop when it reaches byte i: the start key, then the
\* byte before (key = i).
decrypt_key(string, i) == IF i = 1 THEN StartKey ELSE string[i - 1]

\* decrypt(string): a = key ^ i; key = i; result += chr(a), for every byte.
decrypt(string) ==
    [i \in 1..Len(string) |-> xor[decrypt_key(string, i), string[i]]]

\* ------------------------------------------------------------------- texts

\* The predefined commands (a string is the sequence of its code points).
commands ==
    \* info: {"system":{"get_sysinfo":{}}}
    [ info |->
        << 123, 34, 115, 121, 115, 116, 101, 109, 34, 58, 123, 34, 103, 101, 116,
           95, 115, 121, 115, 105, 110, 102, 111, 34, 58, 123, 125, 125, 125 >>,
    \* on: {"system":{"set_relay_state":{"state":1}}}
      on |->
        << 123, 34, 115, 121, 115, 116, 101, 109, 34, 58, 123, 34, 115, 101, 116,
           95, 114, 101, 108, 97, 121, 95, 115, 116, 97, 116, 101, 34, 58, 123,
           34, 115, 116, 97, 116, 101, 34, 58, 49, 125, 125, 125 >>,
    \* off: {"system":{"set_relay_state":{"state":0}}}
      off |->
        << 123, 34, 115, 121, 115, 116, 101, 109, 34, 58, 123, 34, 115, 101, 116,
           95, 114, 101, 108, 97, 121, 95, 115, 116, 97, 116, 101, 34, 58, 123,
           34, 115, 116, 97, 116, 101, 34, 58, 48, 125, 125, 125 >>,
    \* ledoff: {"system":{"set_led_off":{"off":1}}}
      ledoff |->
        << 123, 34, 115, 121, 115, 116, 101, 109, 34, 58, 123, 34, 115, 101, 116,
           95, 108, 101, 100, 95, 111, 102, 102, 34, 58, 123, 34, 111, 102, 102,
           34, 58, 49, 125, 125, 125 >>,
    \* ledon: {"system":{"set_led_off":{"off":0}}}
      ledon |->
        << 123, 34, 115, 121, 115, 116, 101, 109, 34, 58, 123, 34, 115, 101, 116,
           95, 108, 101, 100, 95, 111, 102, 102, 34, 58, 123, 34, 111, 102, 102,
           34, 58, 48, 125, 125, 125 >>,
    \* cloudinfo: {"cnCloud":{"get_info":{}}}
      cloudinfo |->
        << 123, 34, 99, 110, 67, 108, 111, 117, 100, 34, 58, 123, 34, 103, 101,
           116, 95, 105, 110, 102, 111, 34, 58, 123, 125, 125, 125 >>,
    \* wlanscan: {"netif":{"get_scaninfo":{"refresh":0}}}
      wlanscan |->
        << 123, 34, 110, 101, 116, 105, 102, 34, 58, 123, 34, 103, 101, 116, 95,
           115, 99, 97, 110, 105, 110, 102, 111, 34, 58, 123, 34, 114, 101, 102,
           114, 101, 115, 104, 34, 58, 48, 125, 125, 125 >>,
    \* time: {"time":{"get_time":{}}}
      time |->
        << 123, 34, 116, 105, 109, 101, 34, 58, 123, 34, 103, 101, 116, 95, 116,
           105, 109, 101, 34, 58, 123, 125, 125, 125 >>,
    \* schedule: {"schedule":{"get_rules":{}}}
      schedule |->
        << 123, 34, 115, 99, 104, 101, 100, 117, 108, 101, 34, 58, 123, 34, 103,
           101, 116, 95, 114, 117, 108, 101, 115, 34, 58, 123, 125, 125, 125 >>,
    \* countdown: {"count_down":{"get_rules":{}}}
      countdown |->
        << 123, 34, 99, 111, 117, 110, 116, 95, 100, 111, 119, 110, 34, 58, 123,
           34, 103, 101, 116, 95, 114, 117, 108, 101, 115, 34, 58, 123, 125, 125,
           125 >>,
    \* antitheft: {"anti_theft":{"get_rules":{}}}
      antitheft |->
        << 123, 34, 97, 110, 116, 105, 95, 116, 104, 101, 102, 116, 34, 58, 123,
           34, 103, 101, 116, 95, 114, 117, 108, 101, 115, 34, 58, 123, 125, 125,
           125 >>,
    \* reboot: {"system":{"reboot":{"delay":1}}}
      reboot |->
        << 123, 34, 115, 121, 115, 116, 101, 109, 34, 58, 123, 34, 114, 101, 98,
           111, 111, 116, 34, 58, 123, 34, 100, 101, 108, 97, 121, 34, 58, 49,
           125, 125, 125 >>,
    \* reset: {"system":{"reset":{"delay":1}}}
      reset |->
        << 123, 34, 115, 121, 115, 116, 101, 109, 34, 58, 123, 34, 114, 101, 115,
           101, 116, 34, 58, 123, 34, 100, 101, 108, 97, 121, 34, 58, 49, 125,
           125, 125 >>,
    \* energy: {"emeter":{"get_realtime":{}}}
      energy |->
        << 123, 34, 101, 109, 101, 116, 101, 114, 34, 58, 123, 34, 103, 101, 116,
           95, 114, 101, 97, 108, 116, 105, 109, 101, 34, 58, 123, 125, 125, 125 >> ]

\* json.dumps text before the value of year: '{"time": {"set_timezone": {"year": '
dumps_year ==
    << 123, 34, 116, 105, 109, 101, 34, 58, 32, 123, 34, 115, 101, 116, 95,
       116, 105, 109, 101, 122, 111, 110, 101, 34, 58, 32, 123, 34, 121, 101,
       97, 114, 34, 58, 32 >>

\* json.dumps text before the value of month: ', "month": '
dumps_month ==
    << 44, 32, 34, 109, 111, 110, 116, 104, 34, 58, 32 >>

\* json.dumps text before the value of mday: ', "mday": '
dumps_mday ==
    << 44, 32, 34, 109, 100, 97, 121, 34, 58, 32 >>

\* json.dumps text before the value of hour: ', "hour": '
dumps_hour ==
    << 44, 32, 34, 104, 111, 117, 114, 34, 58, 32 >>

\* json.dumps text before the value of min: ', "min": '
dumps_min ==
    << 44, 32, 34, 109, 105, 110, 34, 58, 32 >>

\* json.dumps text before the value of sec: ', "sec": '
dumps_sec ==
    << 44, 32, 34, 115, 101, 99, 34, 58, 32 >>

\* json.dumps text before the value of index: ', "index": '
dumps_index ==
    << 44, 32, 34, 105, 110, 100, 101, 120, 34, 58, 32 >>

\* json.dumps text closing the document: '}}}'
dumps_tail ==
    << 125, 125, 125 >>

\* device reply text before the value of year: '{"time":{"get_time":{"year":'
reply_year ==
    << 123, 34, 116, 105, 109, 101, 34, 58, 123, 34, 103, 101, 116, 95, 116,
       105, 109, 101, 34, 58, 123, 34, 121, 101, 97, 114, 34, 58 >>

\* device reply text before the value of month: ',"month":'
reply_month ==
    << 44, 34, 109, 111, 110, 116, 104, 34, 58 >>

\* device reply text before the value of mday: ',"mday":'
reply_mday ==
    << 44, 34, 109, 100, 97, 121, 34, 58 >>

\* device reply text before the value of hour: ',"hour":'
reply_hour ==
    << 44, 34, 104, 111, 117, 114, 34, 58 >>

\* device reply text before the value of min: ',"min":'
reply_min ==
    << 44, 34, 109, 105, 110, 34, 58 >>

\* device reply text before the value of sec: ',"sec":'
reply_sec ==
    << 44, 34, 115, 101, 99, 34, 58 >>

\* device reply text closing the document: '}}}'
reply_tail ==
    << 125, 125, 125 >>

\* the text: '{}'
text_empty_object ==
    << 123, 125 >>

\* the text: '[]'
text_array ==
    << 91, 93 >>

\* the text: '<html>'
text_garbage ==
    << 60, 104, 116, 109, 108, 62 >>

\* the text: '{"time":{"get_time":{"err_code":-1}}}'
text_err_code ==
    << 123, 34, 116, 105, 109, 101, 34, 58, 123, 34, 103, 101, 116, 95, 116,
       105, 109, 101, 34, 58, 123, 34, 101, 114, 114, 95, 99, 111, 100, 101,
       34, 58, 45, 49, 125, 125, 125 >>

\* the text: '"'
text_quote ==
    << 34 >>

\* the text: '-'
text_minus ==
    << 45 >>

\* a raw JSON argument with a character of Latin-1 (U+00E9): '{"a":"\u00e9"}'
json_latin1 ==
    << 123, 34, 97, 34, 58, 34, 233, 34, 125 >>

\* a raw JSON argument with a character beyond U+00FF (U+20AC): '{"a":"\u20ac"}'
json_wide ==
    << 123, 34, 97, 34, 58, 34, 8364, 34, 125 >>

\* str(n) of an integer, as json.dumps writes it.
RECURSIVE digits(_)
digits(n) == IF n < 10 THEN << 48 + n >> ELSE Append(digits(n \div 10), 48 + (n % 10))

dec(n) == IF n < 0 THEN text_minus \o digits(-n) ELSE digits(n)

\* -------------------------------------------------------------------- JSON

\* A parsed JSON value: type is "object", "array", "int" or "str"; items is
\* an object's members (a function of its keys) or an array's elements.
JObject(f) == [type |-> "object", num |-> 0, items |-> f]

JArray(s) == [type |-> "array", num |-> 0, items |-> s]

JInt(n) == [type |-> "int", num |-> n, items |-> <<>>]

JStr == [type |-> "str", num |-> 0, items |-> <<>>]

\* v[key] for a string key: KeyError when an object lacks the key, TypeError
\* when v is a list, a string or a number.
getitem(v, key) ==
    IF v.type = "object"
    THEN IF key \in DOMAIN v.items THEN Result(v.items[key]) ELSE Raise("KeyError")
    ELSE Raise("TypeError")

\* The device's reply to the time query, as text and as the value
\* json.loads gives for that text.
time_text(y, mo, d, h, mi, s) ==
    reply_year \o dec(y) \o reply_month \o dec(mo) \o reply_mday \o dec(d)
    \o reply_hour \o dec(h) \o reply_min \o dec(mi) \o reply_sec \o dec(s)
    \o reply_tail

time_value(y, mo, d, h, mi, s) ==
    JObject([time |-> JObject([get_time |-> JObject(
        [year |-> JInt(y), month |-> JInt(mo), mday |-> JInt(d),
         hour |-> JInt(h), min |-> JInt(mi), sec |-> JInt(s)])])])

\* The instants the device reports in the model: around 2026-11-01 00:01:00,
\* and the start of the year 2000.
RemoteSamples ==
    << <<2026, 11, 1, 0, 1, 0>>, <<2026, 11, 1, 0, 0, 0>>, <<2026, 10, 31, 23, 59, 59>>,
       <<2026, 11, 1, 0, 2, 0>>, <<2026, 11, 1, 0, 2, 1>>, <<2000, 1, 1, 0, 0, 0>> >>

\* The JSON texts the model's device can send, each with its parsed value:
\* well-formed time replies, then replies that parse but are not a usable
\* time reply (month 13, no "sec", a string for the year, an error object,
\* an empty object, an array).
DocTable ==
    [i \in 1..Len(RemoteSamples) |->
        LET r == RemoteSamples[i]
        IN  [text  |-> time_text(r[1], r[2], r[3], r[4], r[5], r[6]),
             value |-> time_value(r[1], r[2], r[3], r[4], r[5], r[6])]]
    \o
    << [text  |-> time_text(2026, 13, 1, 0, 1, 0),
        value |-> time_value(2026, 13, 1, 0, 1, 0)],
       [text  |-> reply_year \o dec(2026) \o reply_month \o dec(11) \o reply_mday
                  \o dec(1) \o reply_hour \o dec(0) \o reply_min \o dec(1)
                  \o reply_tail,
        value |-> JObject([time |-> JObject([get_time |-> JObject(
                      [year |-> JInt(2026), month |-> JInt(11), mday |-> JInt(1),
                       hour |-> JInt(0), min |-> JInt(1)])])])],
       [text  |-> reply_year \o text_quote \o dec(2026) \o text_quote
                  \o reply_month \o dec(11) \o reply_mday \o dec(1) \o reply_hour
                  \o dec(0) \o reply_min \o dec(1) \o reply_sec \o dec(0)
                  \o reply_tail,
        value |-> JObject([time |-> JObject([get_time |-> JObject(
                      [year |-> JStr, month |-> JInt(11), mday |-> JInt(1),
                       hour |-> JInt(0), min |-> JInt(1), sec |-> JInt(0)])])])],
       [text  |-> text_err_code,
        value |-> JObject([time |-> JObject([get_time |-> JObject(
                      [err_code |-> JInt(-1)])])])],
       [text  |-> text_empty_object, value |-> JObject(<<>>)],
       [text  |-> text_array, value |-> JArray(<<>>)] >>

\* json.loads(s).  Every text the model can hand to it is in DocTable, is
\* text_garbage, or is a proper prefix of one of these or of text_long (recv
\* takes RecvBuf bytes, fewer than text_long has); none of the latter is a
\* JSON text (an object or array text cut short lacks its closing bracket).
json_loads(s) ==
    IF \E i \in DOMAIN DocTable : DocTable[i].text = s
    THEN Result(DocTable[CHOOSE i \in DOMAIN DocTable : DocTable[i].text = s].value)
    ELSE Raise("JSONDecodeError")

\* A long reply: '{"a":"xxx...x"}', MaxReply characters.
text_long ==
    << 123, 34, 97, 34, 58, 34 >> \o [i \in 1..(MaxReply - 8) |-> 120]
        \o << 34, 125 >>

\* the text: '{"err_code":0}'
text_ok ==
    << 123, 34, 101, 114, 114, 95, 99, 111, 100, 101, 34, 58, 48, 125 >>

\* What the model's device answers to a request.  To the time query: the
\* texts of DocTable, one that is not JSON, or no text at all.  To the
\* query of its system information: a text longer than recv takes, or no
\* text.  To any other command: an acknowledgement, a text that is not
\* JSON, or no text.
Replies(request) ==
    IF request = commands["time"]
    THEN {DocTable[i].text : i \in DOMAIN DocTable} \cup {text_garbage, <<>>}
    ELSE IF request = commands["info"]
    THEN {text_long, <<>>}
    ELSE {text_ok, text_garbage, <<>>}

\* The plaintexts the model's device can send.
DeviceTexts ==
    Replies(commands["time"]) \cup Replies(commands["info"]) \cup Replies(<<>>)

\* ---------------------------------------------------------------- datetime

is_leap(year) == year % 4 = 0 /\ (year % 100 # 0 \/ year % 400 = 0)

days_in_month(year, month) ==
    IF month = 2 THEN (IF is_leap(year) THEN 29 ELSE 28)
    ELSE IF month \in {4, 6, 9, 11} THEN 30 ELSE 31

\* Days before January 1st of year.
days_before_year(year) ==
    LET y == year - 1 IN y * 365 + (y \div 4) - (y \div 100) + (y \div 400)

\* Days of year before the first day of month.
RECURSIVE days_before_month(_, _)
days_before_month(year, month) ==
    IF month = 1 THEN 0
    ELSE days_before_month(year, month - 1) + days_in_month(year, month - 1)

\* The proleptic Gregorian ordinal of a date.
ymd2ord(year, month, day) ==
    days_before_year(year) + days_before_month(year, month) + day

\* datetime(year, month, day, hour, minute, second) on JSON values: TypeError
\* unless all are integers, ValueError unless they form a date and a time.
datetime(year, month, day, hour, minute, second) ==
    IF \E a \in {year, month, day, hour, minute, second} : a.type # "int"
    THEN Raise("TypeError")
    ELSE IF /\ year.num \in 1..9999
            /\ month.num \in 1..12
            /\ day.num \in 1..days_in_month(year.num, month.num)
            /\ hour.num \in 0..23
            /\ minute.num \in 0..59
            /\ second.num \in 0..59
         THEN Result([year |-> year.num, month |-> month.num, day |-> day.num,
                      hour |-> hour.num, minute |-> minute.num,
                      second |-> second.num, microsecond |-> 0])
         ELSE Raise("ValueError")

\* timedelta(days, seconds, microseconds), normalised as Python stores it:
\* 0 <= seconds < 86400 and 0 <= microseconds < 1000000.
timedelta(days, seconds, microseconds) ==
    LET s == seconds + (microseconds \div 1000000)
    IN  [days |-> days + (s \div 86400), seconds |-> s % 86400,
         microseconds |-> microseconds % 1000000]

\* a - b of two naive datetimes.
datetime_sub(a, b) ==
    timedelta(ymd2ord(a.year, a.month, a.day) - ymd2ord(b.year, b.month, b.day),
              (a.hour * 3600 + a.minute * 60 + a.second)
              - (b.hour * 3600 + b.minute * 60 + b.second),
              a.microsecond - b.microsecond)

\* abs(td): -td when td.days < 0.
timedelta_abs(td) ==
    IF td.days < 0 THEN timedelta(-td.days, -td.seconds, -td.microseconds) ELSE td

\* td.total_seconds() > n for a td >= 0 and a whole n below one day.
total_seconds_gt(td, n) ==
    \/ td.days > 0
    \/ td.seconds > n
    \/ td.seconds = n /\ td.microseconds > 0

\* What datetime.now() returns in the model: 2026-11-01 00:01:00 to the
\* microsecond, one microsecond later and one microsecond earlier.
NowSamples ==
    { [year |-> 2026, month |-> 11, day |-> 1, hour |-> 0, minute |-> 1,
       second |-> 0, microsecond |-> 0],
      [year |-> 2026, month |-> 11, day |-> 1, hour |-> 0, minute |-> 1,
       second |-> 0, microsecond |-> 1],
      [year |-> 2026, month |-> 11, day |-> 1, hour |-> 0, minute |-> 0,
       second |-> 59, microsecond |-> 999999] }

\* No datetime: the value of time and time_remote outside a comparison.
NoTime ==
    [year |-> 0, month |-> 0, day |-> 0, hour |-> 0, minute |-> 0,
     second |-> 0, microsecond |-> 0]

\* ------------------------------------------------------ update_time, pure

\* The seconds of drift above which update_time corrects the device.
Threshold == 60

\* The timezone index update_time sends.
TimezoneIndex == 41

\* json.loads(rsp)["time"]["get_time"]
get_time_of(rsp) ==
    LET doc == json_loads(rsp)
    IN  IF doc.exc # "none" THEN doc
        ELSE LET t == getitem(doc.val, "time")
             IN  IF t.exc # "none" THEN t ELSE getitem(t.val, "get_time")

\* datetime(rsp["year"], rsp["month"], rsp["mday"], rsp["hour"], rsp["min"],
\* rsp["sec"]): the six subscripts are evaluated first, in this order.
remote_datetime(rsp) ==
    LET keys == << "year", "month", "mday", "hour", "min", "sec" >>
        bad  == {i \in 1..6 : getitem(rsp, keys[i]).exc # "none"}
    IN  IF bad # {}
        THEN getitem(rsp, keys[CHOOSE i \in bad : \A j \in bad : i <= j])
        ELSE datetime(rsp.items["year"], rsp.items["month"], rsp.items["mday"],
                      rsp.items["hour"], rsp.items["min"], rsp.items["sec"])

\* drift_exceeds without abs: only a device that is ahead counts.
drift_exceeds_ahead(time_remote, time) ==
    LET td == datetime_sub(time_remote, time)
    IN  td.days >= 0 /\ total_seconds_gt(td, Threshold)

\* drift_exceeds with >= for >.
drift_exceeds_ge(time_remote, time) ==
    LET td == timedelta_abs(datetime_sub(time_remote, time))
    IN  total_seconds_gt(td, Threshold) \/ (td.days = 0 /\ td.seconds = Threshold)

\* abs((time_remote - time).total_seconds()) > 60
drift_exceeds(time_remote, time) ==
    total_seconds_gt(timedelta_abs(datetime_sub(time_remote, time)), Threshold)

\* json.dumps of the set_timezone command built from the local time.
set_timezone_cmd(time) ==
    dumps_year \o dec(time.year) \o dumps_month \o dec(time.month)
    \o dumps_mday \o dec(time.day) \o dumps_hour \o dec(time.hour)
    \o dumps_min \o dec(time.minute) \o dumps_sec \o dec(time.second)
    \o dumps_index \o dec(TimezoneIndex) \o dumps_tail

\* ------------------------------------------------------------------- state

\* None, and a str value, as one shape of record.
None == [none |-> TRUE, str |-> <<>>]

Str(s) == [none |-> FALSE, str |-> s]

\* v is not None: true of the empty str as well.
truthy_not_none(v) == ~v.none

\* bool(v) of a value that is None or a str.
truthy(v) == ~v.none /\ v.str # <<>>

\* int(s) of a command-line string: an optional sign and decimal digits,
\* ValueError otherwise.
RECURSIVE int_digits(_, _, _)
int_digits(s, i, acc) ==
    IF i > Len(s) THEN Result(acc)
    ELSE IF s[i] \in 48..57 THEN int_digits(s, i + 1, acc * 10 + (s[i] - 48))
    ELSE Raise("ValueError")

int_py(s) ==
    IF s = <<>> \/ s \in {<<43>>, <<45>>} THEN Raise("ValueError")
    ELSE IF s[1] = 45
         THEN LET r == int_digits(s, 2, 0)
              IN  IF r.exc = "none" THEN Result(-r.val) ELSE r
    ELSE IF s[1] = 43 THEN int_digits(s, 2, 0)
    ELSE int_digits(s, 1, 0)

\* The values of --timeout in the model: "10" (also the default, the number
\* 10), "-1" and "x".
TimeoutArgs == { <<49, 48>>, <<45, 49>>, <<120>> }

\* The size of the receive buffer.
RecvBuf == 2048

\* How many of the m bytes of a frame one send may transfer: all of them,
\* or fewer, down to one.
SendCuts(m) == {n \in {1, m - 1, m} : n >= 1 /\ n <= m}

\* How many of m arrived bytes one recv may return: all of them or fewer
\* (one, the four of the length, one more, all but one), or none: the peer
\* closed the connection.
RecvCuts(m) == {n \in {0, 1, 4, 5, m - 1, m} : n >= 0 /\ n <= m}

\* The raw JSON arguments (-j) of the model: "{}", "", a Latin-1 character,
\* a character beyond U+00FF.
JsonArgs == { text_empty_object, <<>>, json_latin1, json_wide }

\* The preset commands (-c) a run of the model may select.
CommandArgs == { "on", "time", "info" }

VARIABLES
    \* the arguments: args.keep_time_updated, args.timeout, and cmd
    keep_time_updated, timeout, cmd,
    \* the position of the top level, of update_time and of send_command
    pc, ut, sc,
    \* send_command: its cmd argument, its socket and the socket's timeout,
    \* data, and the value it returned last
    sc_cmd, sock_tcp, sock_timeout, data, returned,
    \* the connections of earlier send_command calls that nothing has closed
    leaked,
    \* the peer of the connection: the bytes it was sent, whether it replies,
    \* and the reply it put on the connection (its four length bytes and its
    \* plaintext)
    sent, peer, reply,
    \* update_time and the top level: rsp, time, time_remote, decrypted
    rsp, time, time_remote, decrypted,
    \* history: the socket calls made by the current send_command call and
    \* the step of it that raised a socket error; the send_command calls of
    \* the one-shot path; the current cycle of the time updater and, while
    \* the next cycle's query is under way, how the cycle before ended
    tries, failed_at, oneshot_calls, cycle, last_cycle,
    \* the cipher harness: its input, encrypt's result, decrypt's result
    stage, string, encrypted, plain

vars ==
    << keep_time_updated, timeout, cmd, pc, ut, sc, sc_cmd, sock_tcp,
       sock_timeout, data, returned, sent, peer, rsp, time, time_remote,
       decrypted, tries, failed_at, oneshot_calls, cycle, last_cycle,
       leaked, reply, stage, string, encrypted, plain >>

args_vars == << keep_time_updated, timeout, cmd >>

cipher_vars == << stage, string, encrypted, plain >>

sc_vars == << sc, sc_cmd, sock_tcp, sock_timeout, data, returned, sent, peer,
              tries, failed_at, leaked, reply >>

ut_vars == << ut, rsp, time, time_remote, cycle, last_cycle >>

NoTries == [socket |-> 0, settimeout |-> 0, connect |-> 0, cleartimeout |-> 0,
            send |-> 0, recv |-> 0, close |-> 0]

NoTimeout == [set |-> FALSE, seconds |-> 0]

NoReply == [sent |-> FALSE, prefix |-> <<>>, text |-> <<>>]

NoCycle == [queries |-> 0, corrections |-> 0, query |-> "none",
            parsed |-> "none", correction |-> "none"]

\* ------------------------------------------------------------ send_command

\* The garbage collector closes a socket no name refers to any more at a
\* time of its choosing: when send_command ends without close(), its socket
\* is closed by then, or is still open.
Unreferenced(sock) == IF sock = "none" THEN {"none"} ELSE {sock, "closed"}

\* The connections no name refers to when a call begins: those counted
\* before and the one the call before left connected, less the ones the
\* garbage collector has closed by now.
StillOpen ==
    LET n == leaked + (IF sock_tcp = "connected" THEN 1 ELSE 0)
    IN  0..(IF n > MaxLeaked THEN MaxLeaked ELSE n)

\* The call send_command(args, ip, port, c): a new frame, at line 121.
Call(c) ==
    /\ sc = "idle"
    /\ leaked' \in StillOpen
    /\ reply' = NoReply
    /\ sc' = "l121"
    /\ sc_cmd' = Str(c)
    /\ sock_tcp' = "none"
    /\ sock_timeout' = NoTimeout
    /\ data' = <<>>
    /\ sent' = <<>>
    /\ peer' = "none"
    /\ tries' = NoTries
    /\ failed_at' = "none"
    /\ returned' = None

\* SocketError with no handler for socket.error: the exception leaves the
\* call.
SocketError_unhandled(l) ==
    /\ sc' = "raised"
    /\ failed_at' = l

\* A socket call of line l raises socket.error: control goes to line 130.
SocketError(l) ==
    /\ sc' = "l130"
    /\ failed_at' = l

\* send_command is left: its frame is gone (cmd, data), and so is the
\* connection's traffic.
Leave ==
    /\ sc_cmd' = None
    /\ data' = <<>>
    /\ sent' = <<>>
    /\ peer' = "none"

\* An exception that is no socket.error leaves send_command, and with the
\* frame goes the only name of the socket.
Propagate ==
    /\ sc' = "raised"
    /\ \E s \in Unreferenced(sock_tcp) : sock_tcp' = s
    /\ Leave

\* line 121: sock_tcp = socket.socket(AF_INET, SOCK_STREAM)
SC_socket ==
    /\ sc = "l121"
    /\ tries' = [tries EXCEPT !.socket = @ + 1]
    /\ \/ /\ sock_tcp' = "open"
          /\ sc' = "l122"
          /\ UNCHANGED failed_at
       \/ /\ SocketError("socket")
          /\ UNCHANGED sock_tcp
    /\ UNCHANGED << sc_cmd, sock_timeout, data, returned, sent, peer >>
    /\ UNCHANGED << args_vars, pc, ut_vars, decrypted, oneshot_calls, cipher_vars >>
    /\ UNCHANGED leaked
    /\ UNCHANGED reply

\* line 122: sock_tcp.settimeout(int(args.timeout)); int raises ValueError
\* for a string that is no integer, settimeout for a negative timeout.
SC_settimeout ==
    /\ sc = "l122"
    /\ LET t == int_py(timeout)
       IN  /\ tries' = IF t.exc # "none" THEN tries
                       ELSE [tries EXCEPT !.settimeout = @ + 1]
           /\ IF t.exc # "none" \/ t.val < 0
              THEN /\ Propagate
                   /\ UNCHANGED sock_timeout
              ELSE /\ sock_timeout' = [set |-> TRUE, seconds |-> t.val]
                   /\ sc' = "l123"
                   /\ UNCHANGED << sc_cmd, sock_tcp, data, sent, peer >>
    /\ UNCHANGED << returned, failed_at >>
    /\ UNCHANGED << args_vars, pc, ut_vars, decrypted, oneshot_calls, cipher_vars >>
    /\ UNCHANGED leaked
    /\ UNCHANGED reply

\* line 123: sock_tcp.connect((ip, port)): connected, or socket.error
\* (refused, unreachable, timed out).
SC_connect ==
    /\ sc = "l123"
    /\ tries' = [tries EXCEPT !.connect = @ + 1]
    /\ \/ /\ sock_tcp' = "connected"
          /\ sc' = "l124"
          /\ UNCHANGED failed_at
       \/ /\ SocketError("connect")
          /\ UNCHANGED sock_tcp
    /\ UNCHANGED << sc_cmd, sock_timeout, data, returned, sent, peer >>
    /\ UNCHANGED << args_vars, pc, ut_vars, decrypted, oneshot_calls, cipher_vars >>
    /\ UNCHANGED leaked
    /\ UNCHANGED reply

\* SC_cleartimeout with the timeout of line 122 left in force.
SC_cleartimeout_kept ==
    /\ sc = "l124"
    /\ tries' = [tries EXCEPT !.cleartimeout = @ + 1]
    /\ sc' = "l125"
    /\ UNCHANGED << sc_cmd, sock_tcp, sock_timeout, data, returned, sent, peer,
                    failed_at >>
    /\ UNCHANGED << args_vars, pc, ut_vars, decrypted, oneshot_calls, cipher_vars >>
    /\ UNCHANGED leaked
    /\ UNCHANGED reply

\* line 124: sock_tcp.settimeout(None)
SC_cleartimeout ==
    /\ sc = "l124"
    /\ sock_timeout' = NoTimeout
    /\ tries' = [tries EXCEPT !.cleartimeout = @ + 1]
    /\ sc' = "l125"
    /\ UNCHANGED << sc_cmd, sock_tcp, data, returned, sent, peer, failed_at >>
    /\ UNCHANGED << args_vars, pc, ut_vars, decrypted, oneshot_calls, cipher_vars >>
    /\ UNCHANGED leaked
    /\ UNCHANGED reply

\* line 125: sock_tcp.send(encrypt(cmd)): encrypt may raise ValueError; send
\* transfers the frame or a part of it (its return value is dropped), or
\* raises socket.error.  The peer that got the bytes replies later, or never.
SC_send ==
    /\ sc = "l125"
    /\ \E frame \in {encrypt(sc_cmd.str)} :
           IF frame.exc # "none"
           THEN /\ Propagate
                /\ UNCHANGED << tries, failed_at >>
           ELSE /\ tries' = [tries EXCEPT !.send = @ + 1]
                /\ UNCHANGED << sc_cmd, sock_tcp, data >>
                /\ \/ /\ \E n \in SendCuts(Len(frame.val)) :
                            sent' = upto(frame.val, n)
                      /\ \E p \in {"replies", "silent"} : peer' = p
                      /\ sc' = "l126"
                      /\ UNCHANGED failed_at
                   \/ /\ SocketError("send")
                      /\ UNCHANGED << sent, peer >>
    /\ UNCHANGED << sock_timeout, returned >>
    /\ UNCHANGED << args_vars, pc, ut_vars, decrypted, oneshot_calls, cipher_vars >>
    /\ UNCHANGED leaked
    /\ UNCHANGED reply

\* The four length bytes a peer may put before a plaintext: the length as
\* encrypt writes it, or a number that is not the length (0, 2^32 - 1).
Prefixes(text) ==
    { pack_I(Len(text)).val, << 0, 0, 0, 0 >>, << 255, 255, 255, 255 >> }

\* What the peer puts on the connection for a plaintext: four length
\* bytes, then the bytes of the cipher.
reply_stream(prefix, text) == prefix \o from4(encrypt(text).val)

\* SC_recv that reads until it has the whole reply.
SC_recv_reassembled ==
    /\ sc = "l126"
    /\ peer = "replies"
    /\ tries' = [tries EXCEPT !.recv = @ + 1]
    /\ \/ /\ \E text \in Replies(sc_cmd.str) : \E prefix \in Prefixes(text) :
                /\ reply' = [sent |-> TRUE, prefix |-> prefix, text |-> text]
                /\ \E arrived \in {reply_stream(prefix, text)} :
                      \E n \in RecvCuts(Len(arrived)) : data' = upto(arrived, n)
          /\ sc' = "l127"
          /\ UNCHANGED failed_at
       \/ /\ SocketError("recv")
          /\ UNCHANGED << data, reply >>
    /\ UNCHANGED << sc_cmd, sock_tcp, sock_timeout, returned, sent, peer >>
    /\ UNCHANGED << args_vars, pc, ut_vars, decrypted, oneshot_calls, cipher_vars >>
    /\ UNCHANGED leaked

\* line 126: data = sock_tcp.recv(2048): blocks while the peer sends nothing
\* and keeps the connection; returns at most 2048 of the bytes that arrived
\* (none when the peer closed), or raises socket.error.
SC_recv ==
    /\ sc = "l126"
    /\ peer = "replies"
    /\ tries' = [tries EXCEPT !.recv = @ + 1]
    /\ \/ /\ \E text \in Replies(sc_cmd.str) : \E prefix \in Prefixes(text) :
                /\ reply' = [sent |-> TRUE, prefix |-> prefix, text |-> text]
                /\ \E arrived \in {upto(reply_stream(prefix, text), RecvBuf)} :
                      \E n \in RecvCuts(Len(arrived)) : data' = upto(arrived, n)
          /\ sc' = "l127"
          /\ UNCHANGED failed_at
       \/ /\ SocketError("recv")
          /\ UNCHANGED << data, reply >>
    /\ UNCHANGED << sc_cmd, sock_tcp, sock_timeout, returned, sent, peer >>
    /\ UNCHANGED << args_vars, pc, ut_vars, decrypted, oneshot_calls, cipher_vars >>
    /\ UNCHANGED leaked

\* line 127: sock_tcp.close()
SC_close ==
    /\ sc = "l127"
    /\ sock_tcp' = "closed"
    /\ tries' = [tries EXCEPT !.close = @ + 1]
    /\ sc' = "l128"
    /\ UNCHANGED << sc_cmd, sock_timeout, data, returned, sent, peer, failed_at >>
    /\ UNCHANGED << args_vars, pc, ut_vars, decrypted, oneshot_calls, cipher_vars >>
    /\ UNCHANGED leaked
    /\ UNCHANGED reply

\* lines 128-129: decrypted = decrypt(data[4:]); return decrypted
SC_return ==
    /\ sc = "l128"
    /\ returned' = Str(decrypt(from4(data)))
    /\ sc' = "returned"
    /\ Leave
    /\ UNCHANGED << sock_tcp, sock_timeout, tries, failed_at >>
    /\ UNCHANGED << args_vars, pc, ut_vars, decrypted, oneshot_calls, cipher_vars >>
    /\ UNCHANGED leaked
    /\ UNCHANGED reply

\* lines 130-132: except socket.error: log the host and port, return None.
\* The socket is not closed here.
SC_except ==
    /\ sc = "l130"
    /\ returned' = None
    /\ sc' = "returned"
    /\ \E s \in Unreferenced(sock_tcp) : sock_tcp' = s
    /\ Leave
    /\ UNCHANGED << sock_timeout, tries, failed_at >>
    /\ UNCHANGED << args_vars, pc, ut_vars, decrypted, oneshot_calls, cipher_vars >>
    /\ UNCHANGED leaked
    /\ UNCHANGED reply

send_command ==
    \/ SC_socket
    \/ SC_settimeout
    \/ SC_connect
    \/ SC_cleartimeout
    \/ SC_send
    \/ SC_recv
    \/ SC_close
    \/ SC_return
    \/ SC_except

\* ------------------------------------------------------------- update_time

\* How a cycle of the time updater ended, from its history.
outcome(c) ==
    IF c.query = "failed" THEN "transport_failed"
    ELSE IF c.query = "raised" THEN "query_raised"
    ELSE IF c.query = "empty" THEN "empty_reply"
    ELSE IF c.parsed # "ok" THEN "malformed"
    ELSE IF c.corrections = 0 THEN "time_ok"
    ELSE IF c.correction = "done" THEN "corrected"
    ELSE IF c.correction = "failed" THEN "correction_failed"
    ELSE "correction_raised"

\* line 136: rsp = send_command(args, ip, port, commands["time"]), the call
UT_query ==
    /\ ut = "l136"
    /\ Call(commands["time"])
    /\ ut' = "l136r"
    /\ cycle' = [cycle EXCEPT !.queries = @ + 1]
    /\ UNCHANGED << rsp, time, time_remote, last_cycle >>
    /\ UNCHANGED << args_vars, pc, decrypted, oneshot_calls, cipher_vars >>

\* line 136: send_command has returned, rsp is bound
UT_query_return ==
    /\ ut = "l136r"
    /\ sc = "returned"
    /\ sc' = "idle"
    /\ rsp' = returned
    /\ cycle' = [cycle EXCEPT !.query =
                    IF failed_at # "none" THEN "failed"
                    ELSE IF returned.str = <<>> THEN "empty" ELSE "text"]
    /\ ut' = "l137"
    /\ last_cycle' = "none"
    /\ UNCHANGED << sc_cmd, sock_tcp, sock_timeout, data, returned, sent, peer,
                    tries, failed_at >>
    /\ UNCHANGED << time, time_remote >>
    /\ UNCHANGED << args_vars, pc, decrypted, oneshot_calls, cipher_vars >>
    /\ UNCHANGED leaked
    /\ reply' = NoReply

\* lines 136, 143: an exception left send_command; the try statement of
\* update_time takes it to line 151.
UT_raised ==
    /\ ut \in {"l136r", "l143r"}
    /\ sc = "raised"
    /\ sc' = "idle"
    /\ cycle' = IF ut = "l136r" THEN [cycle EXCEPT !.query = "raised"]
                ELSE [cycle EXCEPT !.correction = "raised"]
    /\ ut' = "l151"
    /\ last_cycle' = "none"
    /\ UNCHANGED << sc_cmd, sock_tcp, sock_timeout, data, returned, sent, peer,
                    tries, failed_at >>
    /\ UNCHANGED << rsp, time, time_remote >>
    /\ UNCHANGED << args_vars, pc, decrypted, oneshot_calls, cipher_vars >>
    /\ UNCHANGED leaked
    /\ UNCHANGED reply

\* UT_if without the test: the reply is parsed whatever send_command
\* returned.
UT_if_unchecked ==
    /\ ut = "l137"
    /\ ut' = "l138"
    /\ UNCHANGED << rsp, time, time_remote, cycle, last_cycle >>
    /\ UNCHANGED << args_vars, pc, sc_vars, decrypted, oneshot_calls, cipher_vars >>

\* line 137: if rsp
UT_if ==
    /\ ut = "l137"
    /\ ut' = IF truthy(rsp) THEN "l138" ELSE "l150"
    /\ UNCHANGED << rsp, time, time_remote, cycle, last_cycle >>
    /\ UNCHANGED << args_vars, pc, sc_vars, decrypted, oneshot_calls, cipher_vars >>

\* lines 138-140: rsp = json.loads(rsp)["time"]["get_time"];
\* time = datetime.now(); time_remote = datetime(rsp["year"], ...).
\* (The variable rsp of the model keeps the text.)
UT_parse ==
    /\ ut = "l138"
    /\ LET got == get_time_of(rsp.str)
       IN  IF got.exc # "none"
           THEN /\ cycle' = [cycle EXCEPT !.parsed = got.exc]
                /\ ut' = "l151"
                /\ UNCHANGED << time, time_remote >>
           ELSE \E now \in NowSamples :
                  LET remote == remote_datetime(got.val)
                  IN  /\ time' = now
                      /\ IF remote.exc # "none"
                         THEN /\ cycle' = [cycle EXCEPT !.parsed = remote.exc]
                              /\ ut' = "l151"
                              /\ UNCHANGED time_remote
                         ELSE /\ cycle' = [cycle EXCEPT !.parsed = "ok"]
                              /\ time_remote' = remote.val
                              /\ ut' = "l141"
    /\ UNCHANGED << rsp, last_cycle >>
    /\ UNCHANGED << args_vars, pc, sc_vars, decrypted, oneshot_calls, cipher_vars >>

\* line 141: if abs((time_remote - time).total_seconds()) > 60
UT_compare ==
    /\ ut = "l141"
    /\ ut' = IF drift_exceeds(time_remote, time) THEN "l142" ELSE "l148"
    /\ UNCHANGED << rsp, time, time_remote, cycle, last_cycle >>
    /\ UNCHANGED << args_vars, pc, sc_vars, decrypted, oneshot_calls, cipher_vars >>

\* lines 142-143: cmd = json.dumps(...); decrypted = send_command(args, ip,
\* port, cmd), the call
UT_correct ==
    /\ ut = "l142"
    /\ Call(set_timezone_cmd(time))
    /\ ut' = "l143r"
    /\ cycle' = [cycle EXCEPT !.corrections = @ + 1]
    /\ UNCHANGED << rsp, time, time_remote, last_cycle >>
    /\ UNCHANGED << args_vars, pc, decrypted, oneshot_calls, cipher_vars >>

\* line 143: send_command has returned, decrypted is bound
UT_correct_return ==
    /\ ut = "l143r"
    /\ sc = "returned"
    /\ sc' = "idle"
    /\ decrypted' = returned
    /\ cycle' = [cycle EXCEPT !.correction =
                    IF failed_at # "none" THEN "failed" ELSE "done"]
    /\ ut' = "l144"
    /\ UNCHANGED << sc_cmd, sock_tcp, sock_timeout, data, returned, sent, peer,
                    tries, failed_at >>
    /\ UNCHANGED << rsp, time, time_remote, last_cycle >>
    /\ UNCHANGED << args_vars, pc, oneshot_calls, cipher_vars >>
    /\ UNCHANGED leaked
    /\ reply' = NoReply

\* lines 144-146: log the old time, the new time and the reply
UT_log ==
    /\ ut = "l144"
    /\ ut' = "end"
    /\ UNCHANGED << rsp, time, time_remote, cycle, last_cycle >>
    /\ UNCHANGED << args_vars, pc, sc_vars, decrypted, oneshot_calls, cipher_vars >>

\* line 148: log "Time ok, bypass"
UT_bypass ==
    /\ ut = "l148"
    /\ ut' = "end"
    /\ UNCHANGED << rsp, time, time_remote, cycle, last_cycle >>
    /\ UNCHANGED << args_vars, pc, sc_vars, decrypted, oneshot_calls, cipher_vars >>

\* lines 149-150: else: pass
UT_pass ==
    /\ ut = "l150"
    /\ ut' = "end"
    /\ UNCHANGED << rsp, time, time_remote, cycle, last_cycle >>
    /\ UNCHANGED << args_vars, pc, sc_vars, decrypted, oneshot_calls, cipher_vars >>

\* UT_except catching ValueError only (which JSONDecodeError is): a
\* KeyError or a TypeError leaves update_time and ends the script.
UT_except_narrow ==
    /\ ut = "l151"
    /\ IF cycle.parsed \in {"KeyError", "TypeError"}
       THEN ut' = "idle" /\ pc' = "crashed"
       ELSE ut' = "end" /\ UNCHANGED pc
    /\ UNCHANGED << rsp, time, time_remote, cycle, last_cycle >>
    /\ UNCHANGED << args_vars, sc_vars, decrypted, oneshot_calls, cipher_vars >>

\* lines 151-152: except Exception as e: logging.exception(e)
UT_except ==
    /\ ut = "l151"
    /\ ut' = "end"
    /\ UNCHANGED << rsp, time, time_remote, cycle, last_cycle >>
    /\ UNCHANGED << args_vars, pc, sc_vars, decrypted, oneshot_calls, cipher_vars >>

\* update_time returns to line 167; its local variables are gone.
UT_end ==
    /\ ut = "end"
    /\ pc = "l166"
    /\ ut' = "idle"
    /\ pc' = "l167"
    /\ rsp' = None
    /\ time' = NoTime
    /\ time_remote' = NoTime
    /\ decrypted' = None
    /\ last_cycle' = outcome(cycle)
    /\ UNCHANGED cycle
    /\ UNCHANGED << args_vars, sc_vars, oneshot_calls, cipher_vars >>

update_time ==
    \/ UT_query
    \/ UT_query_return
    \/ UT_raised
    \/ UT_if
    \/ UT_parse
    \/ UT_compare
    \/ UT_correct
    \/ UT_correct_return
    \/ UT_log
    \/ UT_bypass
    \/ UT_pass
    \/ UT_except
    \/ UT_end

\* --------------------------------------------------------------- top level

\* lines 155, 164: if not args.keep_time_updated: ... else: ...
Dispatch ==
    /\ pc = "l155"
    /\ pc' = IF ~keep_time_updated THEN "l156" ELSE "l165"
    /\ UNCHANGED << args_vars, sc_vars, ut_vars, decrypted, oneshot_calls, cipher_vars >>

\* line 156: decrypted = send_command(args, ip, port, cmd), the call
OneShot_call ==
    /\ pc = "l156"
    /\ Call(cmd.str)
    /\ pc' = "l156r"
    /\ oneshot_calls' = oneshot_calls + 1
    /\ UNCHANGED << args_vars, ut_vars, decrypted, cipher_vars >>

\* line 156: send_command has returned, decrypted is bound
OneShot_return ==
    /\ pc = "l156r"
    /\ sc = "returned"
    /\ sc' = "idle"
    /\ decrypted' = returned
    /\ pc' = "l157"
    /\ UNCHANGED << sc_cmd, sock_tcp, sock_timeout, data, returned, sent, peer,
                    tries, failed_at >>
    /\ UNCHANGED << args_vars, ut_vars, oneshot_calls, cipher_vars >>
    /\ UNCHANGED leaked
    /\ reply' = NoReply

\* line 156: an exception left send_command; nothing catches it, the
\* interpreter prints the traceback and exits with status 1.
OneShot_raised ==
    /\ pc = "l156r"
    /\ sc = "raised"
    /\ sc' = "idle"
    /\ pc' = "crashed"
    /\ UNCHANGED << sc_cmd, sock_tcp, sock_timeout, data, returned, sent, peer,
                    tries, failed_at >>
    /\ UNCHANGED << args_vars, ut_vars, decrypted, oneshot_calls, cipher_vars >>
    /\ UNCHANGED leaked
    /\ UNCHANGED reply

\* OneShot_log followed by the exchange once more.
OneShot_log_again ==
    /\ pc = "l157"
    /\ pc' = IF oneshot_calls < 2 THEN "l156" ELSE "exit"
    /\ UNCHANGED << args_vars, sc_vars, ut_vars, decrypted, oneshot_calls, cipher_vars >>

\* OneShot_log with the time updater's loop not under else: the loop
\* follows the one-shot path.
OneShot_log_fallthrough ==
    /\ pc = "l157"
    /\ pc' = "l165"
    /\ UNCHANGED << args_vars, sc_vars, ut_vars, decrypted, oneshot_calls, cipher_vars >>

\* lines 157-161: log what was sent and received; the script ends.
OneShot_log ==
    /\ pc = "l157"
    /\ pc' = "exit"
    /\ UNCHANGED << args_vars, sc_vars, ut_vars, decrypted, oneshot_calls, cipher_vars >>

\* lines 165-166: while True: update_time(), the call
Loop ==
    /\ pc = "l165"
    /\ ut = "idle"
    /\ pc' = "l166"
    /\ ut' = "l136"
    /\ cycle' = NoCycle
    /\ UNCHANGED << rsp, time, time_remote, last_cycle >>
    /\ UNCHANGED << args_vars, sc_vars, decrypted, oneshot_calls, cipher_vars >>

\* Sleep in a loop that runs once: the script ends after the sleep.
Sleep_once ==
    /\ pc = "l167"
    /\ pc' = "exit"
    /\ UNCHANGED << args_vars, sc_vars, ut_vars, decrypted, oneshot_calls, cipher_vars >>

\* line 167: sleep(5)
Sleep ==
    /\ pc = "l167"
    /\ pc' = "l165"
    /\ UNCHANGED << args_vars, sc_vars, ut_vars, decrypted, oneshot_calls, cipher_vars >>

\* The state after the arguments are parsed (line 108) and cmd is set
\* (lines 113-116): cmd is args.json, None in the time updater's mode, or the
\* preset command's text.
Init ==
    /\ keep_time_updated \in BOOLEAN
    /\ timeout \in TimeoutArgs
    /\ cmd \in IF keep_time_updated THEN {None}
               ELSE {Str(commands[c]) : c \in CommandArgs} \cup {Str(j) : j \in JsonArgs}
    /\ pc = "l155"
    /\ ut = "idle"
    /\ sc = "idle"
    /\ sc_cmd = None
    /\ sock_tcp = "none"
    /\ sock_timeout = NoTimeout
    /\ data = <<>>
    /\ returned = None
    /\ sent = <<>>
    /\ peer = "none"
    /\ rsp = None
    /\ time = NoTime
    /\ time_remote = NoTime
    /\ decrypted = None
    /\ tries = NoTries
    /\ failed_at = "none"
    /\ oneshot_calls = 0
    /\ cycle = NoCycle
    /\ last_cycle = "none"
    /\ leaked = 0
    /\ reply = NoReply
    /\ stage = "off"
    /\ string = <<>>
    /\ encrypted = Result(<<>>)
    /\ plain = <<>>

Next ==
    \/ Dispatch
    \/ OneShot_call
    \/ OneShot_return
    \/ OneShot_raised
    \/ OneShot_log
    \/ Loop
    \/ Sleep
    \/ update_time
    \/ send_command

Spec == Init /\ [][Next]_vars

\* The interpreter runs the one thread of the script: a step that can be
\* taken is taken.  A recv whose peer sends nothing cannot be taken.
FairSpec == Spec /\ WF_vars(Next)

\* ---------------------------------------------------------- cipher harness

\* All sequences over S of length 0..n.
Strings(S, n) == UNION {[1..k -> S] : k \in 0..n}

\* Code points for the longer inputs: the ends of the byte range, the start
\* key, the two sides of the seventh bit, and two above the byte range.
SampleChars == {0, 1, 127, 128, 171, 255, 256, 8364}

\* Inputs long enough for the second byte of the length to count.
LongInputs == {[i \in 1..n |-> (i * 7) % 256] : n \in {255, 256, 258}}

CipherInputs ==
    Strings(0..255, MaxFullLen) \cup Strings(SampleChars, MaxLen) \cup LongInputs

\* The harness applies encrypt to an input, then decrypt to the frame
\* without its first four bytes, as send_command does with what it receives
\* (line 128).  The script itself is not run.
InitCipher ==
    /\ stage = "input"
    /\ string \in CipherInputs
    /\ encrypted = Result(<<>>)
    /\ plain = <<>>
    /\ keep_time_updated = FALSE
    /\ timeout = <<49, 48>>
    /\ cmd = None
    /\ pc = "off"
    /\ ut = "idle"
    /\ sc = "idle"
    /\ sc_cmd = None
    /\ sock_tcp = "none"
    /\ sock_timeout = NoTimeout
    /\ data = <<>>
    /\ returned = None
    /\ sent = <<>>
    /\ peer = "none"
    /\ rsp = None
    /\ time = NoTime
    /\ time_remote = NoTime
    /\ decrypted = None
    /\ tries = NoTries
    /\ failed_at = "none"
    /\ oneshot_calls = 0
    /\ cycle = NoCycle
    /\ last_cycle = "none"
    /\ leaked = 0
    /\ reply = NoReply

system_vars ==
    << args_vars, pc, sc_vars, ut_vars, decrypted, oneshot_calls >>

Encrypt ==
    /\ stage = "input"
    /\ encrypted' = encrypt(string)
    /\ stage' = "encrypted"
    /\ UNCHANGED << string, plain, system_vars >>

Decrypt ==
    /\ stage = "encrypted"
    /\ encrypted.exc = "none"
    /\ plain' = decrypt(from4(encrypted.val))
    /\ stage' = "decrypted"
    /\ UNCHANGED << string, encrypted, system_vars >>

NextCipher ==
    \/ Encrypt
    \/ Decrypt

SpecCipher == InitCipher /\ [][NextCipher]_vars

\* ------------------------------------------------------------------ claims

IsBytes(s) == \A i \in DOMAIN s : s[i] \in 0..255

\* C1: cipher round trip.  For every string x of bytes (code points 0..255)
\* encrypt returns a frame, and decrypt of that frame without its four
\* length bytes is x again, whatever the length and the content of x.
C1_RoundTrip ==
    IsBytes(string) =>
        /\ stage # "input" => encrypted.exc = "none"
        /\ stage = "decrypted" => plain = string

\* C1 happens: a three-byte input holding 255, 0 and the start key went
\* through encrypt and decrypt.
C1_Witness ==
    /\ stage = "decrypted"
    /\ string = << 255, 0, 171 >>
    /\ plain = << 255, 0, 171 >>

\* Whether |time_remote - time| is more than 60 seconds, computed from the
\* fields of the two datetimes: more than a day apart, or more than 61
\* whole seconds, or more than 60 000 000 microseconds.
AbsDriftOver60 ==
    LET d == ymd2ord(time_remote.year, time_remote.month, time_remote.day)
             - ymd2ord(time.year, time.month, time.day)
        s == d * 86400
             + (time_remote.hour - time.hour) * 3600
             + (time_remote.minute - time.minute) * 60
             + (time_remote.second - time.second)
        u == time_remote.microsecond - time.microsecond
    IN  IF d > 1 \/ d < -1 THEN TRUE
        ELSE IF s > 61 \/ s < -61 THEN TRUE
        ELSE s * 1000000 + u > 60000000 \/ s * 1000000 + u < -60000000

\* C2: the decision boundary of the time updater.  In a cycle whose time
\* query returned a reply that parsed into a date, update_time calls
\* send_command with the set_timezone command if and only if the device's
\* clock and the local clock are more than 60 seconds apart, in either
\* direction: not at 60 seconds exactly, not at 0.  No cycle issues the
\* command without that comparison, and a set_timezone frame is on a
\* connection only in such a cycle.
C2_DecisionBoundary ==
    /\ (ut = "end" /\ cycle.parsed = "ok") =>
           (cycle.corrections = 1 <=> AbsDriftOver60)
    /\ (ut \in {"l142", "l143r", "l144"}) => (cycle.parsed = "ok" /\ AbsDriftOver60)
    /\ ut = "l148" => (cycle.parsed = "ok" /\ ~AbsDriftOver60)
    /\ cycle.corrections >= 1 => (cycle.parsed = "ok" /\ ut \in {"l143r", "l144", "l151", "end", "idle"})
    /\ (ut = "l143r" /\ sent # <<>>) =>
           (AbsDriftOver60 /\ sent = upto(encrypt(set_timezone_cmd(time)).val, Len(sent)))

\* C2 happens at the boundary: the device is exactly 60 seconds ahead, the
\* cycle has ended its comparison and has sent no correction.
C2_Witness ==
    /\ ut = "end"
    /\ cycle.parsed = "ok"
    /\ cycle.corrections = 0
    /\ time.minute = 1 /\ time.second = 0 /\ time.microsecond = 0
    /\ time_remote.minute = 2 /\ time_remote.second = 0
    /\ time_remote.day = time.day /\ time_remote.hour = time.hour

\* C3: every send_command call releases its socket before it returns, on
\* the success path and on every failure path.
C3_SocketReleased ==
    sc = "returned" => sock_tcp \in {"none", "closed"}

\* C6: a socket error inside send_command, at socket, connect, send or
\* recv, ends the call with None for the caller: no step of the call follows
\* it but the handler, no exception leaves the call, and the caller binds
\* None.  A call makes at most one connect, one send and one recv.
C6_TransportError ==
    /\ failed_at # "none" =>
           /\ sc \in {"l130", "returned", "idle"}
           /\ sc \in {"returned", "idle"} => returned.none
           /\ pc \notin {"crashed"}
           /\ pc \in {"l157", "exit"} => decrypted.none
           /\ ut = "l137" => rsp.none
           /\ ut = "l144" => decrypted.none
    /\ tries.socket <= 1 /\ tries.connect <= 1 /\ tries.send <= 1 /\ tries.recv <= 1

\* C6 happens: recv raised a socket error and the call has returned None.
C6_Witness ==
    /\ failed_at = "recv"
    /\ sc = "returned"
    /\ returned.none
    /\ tries.connect = 1 /\ tries.send = 1 /\ tries.recv = 1

\* The number a four-byte big-endian field holds (for a first byte below
\* 128).
BigEndian(b) == ((b[1] * 256 + b[2]) * 256 + b[3]) * 256 + b[4]

\* C9: the frame encrypt builds for x is four bytes that hold len(x) as a
\* big-endian number, followed by exactly len(x) bytes.
C9_Frame ==
    (stage # "input" /\ encrypted.exc = "none") =>
        /\ Len(encrypted.val) = 4 + Len(string)
        /\ IsBytes(encrypted.val)
        /\ encrypted.val[1] < 128
        /\ BigEndian(encrypted.val) = Len(string)
        /\ Len(from4(encrypted.val)) = Len(string)

\* C9 happens: a frame was built for an input of 258 characters, whose
\* length field is 0, 0, 1, 2.
C9_Witness ==
    /\ stage = "encrypted"
    /\ encrypted.exc = "none"
    /\ Len(string) = 258
    /\ SubSeq(encrypted.val, 1, 4) = << 0, 0, 1, 2 >>

\* send_command has just been called with the time query.
QueryIssued == ut = "l136r" /\ sc = "l121"

\* The call is inside recv and the peer keeps the connection without ever
\* sending: recv, which has no timeout, does not return.
RecvBlocked == sc = "l126" /\ peer = "silent"

\* C4: the time updater survives a transport failure of the time query.
\* When the query's send_command ends with a socket error, the cycle calls
\* send_command for no correction, no exception is handled in or leaves
\* update_time, and the loop goes on to the sleep and from it to the next
\* time query.
C4_SurvivesTransportFailure ==
    /\ [](cycle.query = "failed" =>
            /\ cycle.corrections = 0
            /\ ut \in {"l137", "l150", "end", "idle"}
            /\ pc \in {"l166", "l167", "l165"})
    /\ ((ut = "l137" /\ cycle.query = "failed")
            ~> (pc = "l167" /\ cycle.query = "failed"))
    /\ ((pc = "l167" /\ cycle.query = "failed")
            ~> (QueryIssued /\ last_cycle = "transport_failed"))

\* C4 happens: a cycle's query failed at connect, and the next cycle's
\* query has been issued.
C4_Witness ==
    /\ QueryIssued
    /\ last_cycle = "transport_failed"
    /\ cycle.queries = 1

\* The reply of the cycle's query could not be turned into a date.
Malformed ==
    cycle.parsed \in {"JSONDecodeError", "KeyError", "TypeError", "ValueError"}

\* C5: the time updater survives a malformed reply.  When the reply is no
\* JSON text, lacks "time", "get_time" or one of the six fields, or holds
\* values that are no date, the exception is caught at line 151, the cycle
\* calls send_command for no correction, and the loop goes on to the sleep
\* and from it to the next time query.
C5_SurvivesMalformedReply ==
    /\ [](Malformed =>
            /\ cycle.corrections = 0
            /\ ut \in {"l151", "end", "idle"}
            /\ pc \in {"l166", "l167", "l165"})
    /\ ((ut = "l151" /\ Malformed) ~> (pc = "l167" /\ Malformed))
    /\ ((pc = "l167" /\ Malformed) ~> (QueryIssued /\ last_cycle = "malformed"))

\* C5 happens: the reply held month 13 (ValueError), and the loop has
\* reached its sleep.
C5_Witness ==
    /\ pc = "l167"
    /\ cycle.parsed = "ValueError"
    /\ cycle.corrections = 0
    /\ last_cycle = "malformed"

\* No exception can leave send_command in this run: --timeout is a
\* non-negative integer and every character of cmd is at most U+00FF.
Sendable ==
    /\ int_py(timeout).exc = "none"
    /\ int_py(timeout).val >= 0
    /\ encrypt(cmd.str).exc = "none"

\* C7 as stated: one-shot mode reaches its end after exactly one
\* send_command call, whatever the device and the network do.  (Stated for
\* the runs in which no exception can leave send_command.)
C7_Original ==
    (~keep_time_updated /\ Sendable) => <>(pc = "exit" /\ oneshot_calls = 1)

\* C7, amended: one-shot mode calls send_command exactly once and never
\* again.  When the call returns, with a reply or with None after a socket
\* error, the path logs and ends.  The call does not return while the peer
\* keeps the connection and sends nothing (recv has no timeout), and it is
\* left by an exception when --timeout or the payload is unusable: every
\* one-shot run ends, ends with that exception, or blocks in recv for ever.
C7_OneShot ==
    /\ [](oneshot_calls <= 1)
    /\ [](pc \in {"l156r", "l157", "exit", "crashed"} => oneshot_calls = 1)
    /\ ((pc = "l156r" /\ sc = "returned") ~> pc = "exit")
    /\ (~keep_time_updated =>
            (<>(pc = "exit") \/ <>(pc = "crashed") \/ <>[]RecvBlocked))
    /\ ((~keep_time_updated /\ Sendable) =>
            (<>(pc = "exit") \/ <>[]RecvBlocked))

\* C7 happens: the one exchange failed at connect and the path has ended.
C7_Witness ==
    /\ pc = "exit"
    /\ oneshot_calls = 1
    /\ failed_at = "connect"
    /\ decrypted.none

\* C8 as stated: in the time updater's mode a time query is issued
\* infinitely often.
C8_Original == keep_time_updated => []<>QueryIssued

\* C8, amended: the time updater has no terminal state, and after every
\* cycle that ends, whatever its outcome, it sleeps and then issues a new
\* time query.  A cycle does not end while the peer of its query or of its
\* correction keeps the connection and sends nothing: recv has no timeout.
\* So either a time query is issued infinitely often, or the loop blocks in
\* a recv for ever.
C8_AlwaysPollsAgain ==
    /\ [](keep_time_updated => pc \in {"l155", "l165", "l166", "l167"})
    /\ (ut = "end" ~> pc = "l167")
    /\ (pc = "l167" ~> QueryIssued)
    /\ (keep_time_updated => ([]<>QueryIssued \/ <>[]RecvBlocked))

\* C8 happens: a cycle sent a correction whose exchange failed, and the
\* next cycle's query has been issued.
C8_Witness ==
    /\ QueryIssued
    /\ last_cycle = "correction_failed"

\* C10: the two modes exclude each other and the mode is chosen once.  A
\* run in one-shot mode never enters update_time nor the loop; a run in the
\* time updater's mode never reaches the one-shot lines and sends nothing
\* but the time query and the set_timezone command; the mode never changes.
C10_ModesExclusive ==
    /\ [](~keep_time_updated =>
            /\ ut = "idle"
            /\ cycle = NoCycle
            /\ pc \in {"l155", "l156", "l156r", "l157", "exit", "crashed"})
    /\ [](keep_time_updated =>
            /\ oneshot_calls = 0
            /\ pc \in {"l155", "l165", "l166", "l167"}
            /\ sc # "idle" => ut \in {"l136r", "l143r"}
            /\ (ut = "l136r" /\ ~sc_cmd.none) => sc_cmd.str = commands["time"]
            /\ (ut = "l143r" /\ ~sc_cmd.none) => sc_cmd.str = set_timezone_cmd(time))
    /\ [][keep_time_updated' = keep_time_updated]_vars

\* C10 happens: a run in the time updater's mode is sending a correction
\* and has made no one-shot call.
C10_Witness ==
    /\ keep_time_updated
    /\ ut = "l143r"
    /\ sc = "l126"
    /\ oneshot_calls = 0

\* The socket calls of send_command in the order of lines 121-127.
StepOrder ==
    << "socket", "settimeout", "connect", "cleartimeout", "send", "recv",
       "close" >>

\* The history of a call that has made the first n of them, once each.
After(n) ==
    [f \in DOMAIN NoTries |-> IF \E i \in 1..n : StepOrder[i] = f THEN 1 ELSE 0]

\* C11: within a send_command call the socket steps occur in one order,
\* each at most once, and in a call that succeeds each exactly once: set
\* the connect timeout, connect, clear the timeout, send, receive, close,
\* then decrypt(data[4:]).  The timeout is in force for connect and for no
\* send or receive, and a receive whose peer sends nothing and keeps the
\* connection does not return.
C11_StepOrder ==
    /\ [](/\ \A i \in 1..7 : tries[StepOrder[i]] <= 1
          /\ \A i \in 2..7 : tries[StepOrder[i]] = 1 => tries[StepOrder[i - 1]] = 1
          /\ sc = "l122" => tries = After(1)
          /\ sc = "l123" => (tries = After(2) /\ sock_timeout.set)
          /\ sc = "l124" => (tries = After(3) /\ sock_timeout.set)
          /\ sc = "l125" => (tries = After(4) /\ ~sock_timeout.set)
          /\ sc = "l126" => (tries = After(5) /\ ~sock_timeout.set)
          /\ sc = "l127" => (tries = After(6) /\ ~sock_timeout.set)
          /\ sc = "l128" => (tries = After(7) /\ sock_tcp = "closed")
          /\ (sc = "returned" /\ failed_at = "none") =>
                 (tries = After(7) /\ sock_tcp = "closed" /\ ~returned.none)
          /\ sock_timeout.set => (tries.send = 0 /\ tries.recv = 0))
    /\ [][(sc = "l126" /\ sc' # "l126") => peer = "replies"]_vars

\* C11 happens: a call has made all seven steps and returned a plaintext.
C11_Witness ==
    /\ sc = "returned"
    /\ failed_at = "none"
    /\ tries = After(7)
    /\ sock_tcp = "closed"
    /\ returned.str # <<>>

\* The connections that are open: those left by earlier calls, and the one
\* of the call under way or just ended.
OpenConnections == leaked + (IF sock_tcp = "connected" THEN 1 ELSE 0)

\* C12: commands are strictly sequential with a single outstanding
\* request.  At any moment at most one connection is open; a cycle sends
\* its correction only after its own time query returned a reply that
\* parsed, with the query's connection closed; a cycle sends at most one
\* time query and at most one correction.
C12_SingleOutstanding ==
    /\ OpenConnections <= 1
    /\ cycle.queries <= 1
    /\ cycle.corrections <= 1
    /\ ut \in {"l142", "l143r"} =>
           (cycle.queries = 1 /\ cycle.query = "text" /\ cycle.parsed = "ok")
    /\ ut = "l142" => sock_tcp = "closed"


\* The number of bytes of a reply that follow its first four.
Received(n) == IF n > 4 THEN n - 4 ELSE 0

\* The reply carried length bytes that are not the length of what followed.
WrongPrefix ==
    /\ reply.sent
    /\ reply.prefix # pack_I(Len(reply.text)).val

\* C13: the receiver treats the length prefix as advisory. Whatever four
\* bytes the peer put first, the step that turns the received bytes into the
\* result (line 128) never raises, and the result is the plaintext of the
\* bytes received after the first four: the peer's plaintext cut to that
\* many characters. The result does not depend on the prefix, neither
\* when it announces more than was received nor when it announces less.
C13_PrefixAdvisory ==
    /\ [](sc = "l128" =>
            /\ reply.sent
            /\ upto(data, 4) = upto(reply.prefix, Len(data))
            /\ decrypt(from4(data)) = upto(reply.text, Received(Len(data))))
    /\ [][sc = "l128" =>
            /\ sc' = "returned"
            /\ failed_at' = "none"
            /\ returned' = Str(upto(reply.text, Received(Len(data))))]_vars

C13_Witness ==
    /\ sc = "returned"
    /\ failed_at = "none"
    /\ WrongPrefix
    /\ reply.prefix = << 0, 0, 0, 0 >>
    /\ returned = Str(reply.text)
    /\ Len(reply.text) > 4


\* The number of bytes of a reply: its four length bytes and one byte for
\* each character of its plaintext.
ReplyBytes == 4 + Len(reply.text)

\* What one recv can take of the reply: all of it, or RecvBuf bytes.
Fits == IF ReplyBytes > RecvBuf THEN RecvBuf ELSE ReplyBytes

\* A call has returned the plaintext of a reply that the peer sent.
Replied == sc = "returned" /\ failed_at = "none" /\ reply.sent

\* C14 (amended): a reply is read with a single recv of at most 2048 bytes
\* and never reassembled.  When that recv returns r bytes of a reply of n
\* bytes, r is at most min(n, 2048) and the plaintext returned has
\* max(0, r - 4) characters; it is a prefix of the full reply's plaintext
\* and has at most max(0, min(n, 2048) - 4) characters, that many when the
\* recv returned min(n, 2048) bytes.
C14_Truncated ==
    /\ [](/\ sc \in {"l127", "l128"} =>
                (tries.recv = 1 /\ reply.sent /\ Len(data) <= Fits)
          /\ Replied =>
                /\ tries.recv = 1
                /\ Len(returned.str) <= Received(Fits)
                /\ returned.str = upto(reply.text, Len(returned.str)))
    /\ [][sc = "l128" =>
            /\ Len(returned'.str) = Received(Len(data))
            /\ Len(data) = Fits => Len(returned'.str) = Received(Fits)]_vars

\* C14 happens: a reply longer than recv takes was returned cut to what fits.
C14_Witness ==
    /\ Replied
    /\ ReplyBytes > RecvBuf
    /\ Len(returned.str) = RecvBuf - 4
    /\ returned.str # reply.text

\* C14 as stated: the plaintext returned for a reply of n bytes has
\* max(0, min(n, 2048) - 4) characters and is a prefix of the reply's
\* plaintext.
C14_Original ==
    Replied =>
        /\ Len(returned.str) = Received(Fits)
        /\ returned.str = upto(reply.text, Len(returned.str))


\* C15: the cipher has no error conditions.  For every payload, the
\* characters beyond ASCII included, encrypt returns a frame and never
\* raises; decrypt then returns a plaintext of as many characters as it was
\* given bytes.
C15_NeverFails ==
    /\ stage # "input" => encrypted.exc = "none"
    /\ stage = "decrypted" => Len(plain) = Len(string)


\* The places of update_time a cycle passes when its query fails in the
\* transport: the test of line 137, the else branch, the end.
FailurePath == ut \in {"l137", "l150", "end", "idle"}

\* C16: in the time updater a reply to the time query that carries no
\* plaintext (four bytes or fewer received) is handled as a transport
\* failure is.  send_command returns the empty text for it; the cycle then
\* takes the path of a failed query: it parses nothing, calls send_command
\* for no correction, handles no exception, and the loop goes on to the
\* sleep and from it to the next time query.
C16_EmptyReplyAsFailure ==
    /\ [][(sc = "l128" /\ ut = "l136r" /\ Len(data) <= 4) =>
            (returned' = Str(<<>>) /\ failed_at' = "none")]_vars
    /\ [][(ut = "l136r" /\ ut' = "l137" /\ returned = Str(<<>>)) =>
            cycle'.query = "empty"]_vars
    /\ [](cycle.query \in {"empty", "failed"} =>
            /\ FailurePath
            /\ cycle.parsed = "none"
            /\ cycle.corrections = 0
            /\ pc \in {"l166", "l167", "l165"})
    /\ ((ut = "l137" /\ cycle.query = "empty")
            ~> (pc = "l167" /\ cycle.query = "empty"))
    /\ ((pc = "l167" /\ cycle.query = "empty")
            ~> (QueryIssued /\ last_cycle = "empty_reply"))

\* C16 happens: the peer closed without a byte, the cycle ended with no
\* correction, and the next cycle's query has been issued.
C16_Witness ==
    /\ QueryIssued
    /\ last_cycle = "empty_reply"
    /\ cycle.queries = 1
    /\ cycle.corrections = 0


\* Every exchange succeeds with a well-formed reply: no socket call fails
\* and no exception is raised, send takes the whole frame, the peer answers,
\* the reply to the time query is a text that parses into a date, and the
\* call of a correction returns.
ExchangesSucceed ==
    /\ sc \notin {"l130", "raised"}
    /\ failed_at = "none"
    /\ peer # "silent"
    /\ sc \in {"l126", "l127", "l128"} => sent = encrypt(sc_cmd.str).val
    /\ cycle.query \in {"none", "text"}
    /\ cycle.parsed \in {"none", "ok"}
    /\ cycle.correction \in {"none", "done"}

\* The device's clock, when the cycle has read it, is more than 60 seconds
\* from the local clock.
Drifting == ut = "l141" => AbsDriftOver60

\* A correction is delivered: the whole frame of the set_timezone command
\* built from the local time is on the connection of the correction's call.
CorrectionDelivered ==
    /\ ut = "l143r"
    /\ sc \in {"l126", "l127", "l128"}
    /\ sent = encrypt(set_timezone_cmd(time)).val

\* C17: eventual correction.  In the time updater's mode, if the device's
\* drift stays above 60 seconds as long as no correction is delivered, and
\* from some point on every exchange succeeds with a well-formed reply,
\* then a correction is eventually delivered, whatever failed in the cycles
\* before: a cycle whose query or correction failed retries nothing, and
\* the next cycle queries and compares again.
C17_EventualCorrection ==
    (keep_time_updated /\ []Drifting /\ <>[]ExchangesSucceed)
        => <>CorrectionDelivered

\* C17 happens: a call of an earlier cycle failed after its connect (its
\* socket is still open), and this cycle, whose query was answered, has
\* delivered its correction.
C17_Witness ==
    /\ CorrectionDelivered
    /\ leaked = 1
    /\ cycle.query = "text"
    /\ cycle.corrections = 1

====
